---- MODULE Spec2Model ----
(***************************************************************************)
(* GraphRAGService (backend/app/services/graphrag_service.py): the         *)
(* per-conversation knowledge-base lifecycle manager.  The state is the    *)
(* directory tree under settings.graphrag_data_dir, the process-wide       *)
(* settings, and the calls in flight on the asyncio event loop.  A         *)
(* coroutine runs without interruption between two awaits, so every       *)
(* action below is the code between two awaits of one handler.             *)
(***************************************************************************)
EXTENDS Integers, Sequences, FiniteSets, TLC

VARIABLES fs, settings, call, last, nops

vars == <<fs, settings, call, last, nops>>

(***************************************************************************)
(* Bounds of the model.                                                    *)
(***************************************************************************)
\* number of service calls started in one behaviour
MaxOps == 2

\* the conversations, and the callers that may have a call in flight
Tenants == {"t1", "t2"}
Callers == {"c1", "c2"}

\* the caller of a client that awaits each call before it makes the next
Serial == {"c1"}

(***************************************************************************)
(* Text.  A Python str is a sequence of one-character strings.             *)
(***************************************************************************)
SetMin(S) == CHOOSE x \in S : \A y \in S : x <= y
SetMax(S) == CHOOSE x \in S : \A y \in S : x >= y

\* set(seq)
ToSet(seq) == {seq[i] : i \in 1..Len(seq)}

\* str.isspace() on the characters the model's texts use
IsSpace(c) == c \in {" ", "\n", "\t"}

UpperAlpha == <<"A","B","C","D","E","F","G","H","I","J","K","L","M","N","O","P","Q","R","S","T","U","V","W","X","Y","Z">>
LowerAlpha == <<"a","b","c","d","e","f","g","h","i","j","k","l","m","n","o","p","q","r","s","t","u","v","w","x","y","z">>

ToLower == [u \in ToSet(UpperAlpha) |-> LowerAlpha[CHOOSE i \in 1..26 : UpperAlpha[i] = u]]

LowerChar(c) == IF c \in DOMAIN ToLower THEN ToLower[c] ELSE c

\* str.lower()
lower(s) == [i \in 1..Len(s) |-> LowerChar(s[i])]

\* str.strip(): leading and trailing whitespace removed
strip(s) ==
    IF \A i \in 1..Len(s) : IsSpace(s[i]) THEN <<>>
    ELSE LET b == CHOOSE i \in 1..Len(s) :
                     ~IsSpace(s[i]) /\ \A j \in 1..(i - 1) : IsSpace(s[j])
             e == CHOOSE i \in 1..Len(s) :
                     ~IsSpace(s[i]) /\ \A j \in (i + 1)..Len(s) : IsSpace(s[j])
         IN  SubSeq(s, b, e)

\* str.endswith(suffix)
endswith(s, suffix) ==
    /\ Len(s) >= Len(suffix)
    /\ SubSeq(s, Len(s) - Len(suffix) + 1, Len(s)) = suffix

\* s[:n] for n >= 0
prefix(s, n) == SubSeq(s, 1, IF n < Len(s) THEN n ELSE Len(s))

\* whether sub occurs in s at position i
MatchAt(s, sub, i) ==
    /\ i >= 1
    /\ i + Len(sub) - 1 <= Len(s)
    /\ SubSeq(s, i, i + Len(sub) - 1) = sub

\* `sub in s`
contains(s, sub) == \E i \in 1..(Len(s) + 1) : MatchAt(s, sub, i)

\* str.split(): the maximal runs of non-whitespace, in order
RECURSIVE SplitFrom(_, _)
SplitFrom(s, from) ==
    LET starts == {i \in from..Len(s) : ~IsSpace(s[i])}
    IN  IF starts = {} THEN <<>>
        ELSE LET b == SetMin(starts)
                 stops == {j \in b..Len(s) : IsSpace(s[j])}
                 e == IF stops = {} THEN Len(s) ELSE SetMin(stops) - 1
             IN  <<SubSeq(s, b, e)>> \o SplitFrom(s, e + 1)

split(s) == SplitFrom(s, 1)

\* str.split(sep) for a non-empty sep: cut at each occurrence, left to right
RECURSIVE SplitSepFrom(_, _, _)
SplitSepFrom(s, sep, from) ==
    LET hits == {i \in from..Len(s) : MatchAt(s, sep, i)}
    IN  IF hits = {} THEN <<SubSeq(s, from, Len(s))>>
        ELSE LET h == SetMin(hits)
             IN  <<SubSeq(s, from, h - 1)>> \o SplitSepFrom(s, sep, h + Len(sep))

split_sep(s, sep) == SplitSepFrom(s, sep, 1)

\* str.replace(old, new) where old is two distinct characters (occurrences
\* cannot overlap)
RECURSIVE ReplaceFrom(_, _, _, _)
ReplaceFrom(s, old, new, from) ==
    LET hits == {i \in from..Len(s) : MatchAt(s, old, i)}
    IN  IF hits = {} THEN SubSeq(s, from, Len(s))
        ELSE LET h == SetMin(hits)
             IN  SubSeq(s, from, h - 1) \o new \o ReplaceFrom(s, old, new, h + Len(old))

replace(s, old, new) == ReplaceFrom(s, old, new, 1)

\* sep.join(parts)
RECURSIVE join(_, _)
join(sep, parts) ==
    IF parts = <<>> THEN <<>>
    ELSE IF Len(parts) = 1 THEN parts[1]
    ELSE parts[1] \o sep \o join(sep, Tail(parts))

(***************************************************************************)
(* Settings (app/config.py): read once, cached, never changed afterwards.  *)
(***************************************************************************)
Settings(key) ==
    [openai_api_key |-> key,
     openai_model |-> "gpt-4o",
     openai_embedding_model |-> "text-embedding-ada-002",
     openai_base_url |-> ""]

\* OPENAI_API_KEY in the environment: unset (the default "") or set
ApiKeys == {"", "sk-key"}

(***************************************************************************)
(* The directory tree of one conversation: {base_dir}/{conversation_id}/.  *)
(* files maps each name in input/ to its bytes: kind "text" is valid UTF-8 *)
(* holding `text`, kind "bytes" does not decode.  parquet is the set of    *)
(* *.parquet names in output/.  stray maps <<directory, name>> to the bytes *)
(* of each file a save has put elsewhere in the tree (directory "root",    *)
(* "output" or "cache").                                                   *)
(***************************************************************************)
NoFiles == [n \in {} |-> [kind |-> "text", text |-> <<>>]]

NoYaml == [present |-> FALSE, model |-> "", embedding_model |-> ""]

Absent ==
    [root |-> FALSE, input |-> FALSE, output |-> FALSE, cache |-> FALSE,
     files |-> NoFiles, yaml |-> NoYaml, parquet |-> {}, stray |-> NoFiles]

TextFile(text) == [kind |-> "text", text |-> text]
BytesFile == [kind |-> "bytes", text |-> <<>>]

\* Path.mkdir(parents=True, exist_ok=True) on the conversation directory
get_conversation_dir(w) == [w EXCEPT !.root = TRUE]

get_input_dir(w) == [get_conversation_dir(w) EXCEPT !.input = TRUE]

get_output_dir(w) == [get_conversation_dir(w) EXCEPT !.output = TRUE]

get_cache_dir(w) == [get_conversation_dir(w) EXCEPT !.cache = TRUE]

\* input_dir.glob("*.txt"): the names, in no particular order
glob_txt(w) == {n \in DOMAIN w.files : endswith(n, <<".", "t", "x", "t">>)}

\* artifacts_dir.glob("*.parquet")
glob_parquet(w) == w.parquet

\* Path.read_text(encoding="utf-8") succeeds
Readable(w, n) == w.files[n].kind = "text"

\* Path.write_text on input_dir / filename
WriteFile(w, n, file) ==
    [w EXCEPT !.files = [m \in (DOMAIN w.files) \cup {n} |->
                            IF m = n THEN file ELSE w.files[m]]]

\* str(conversation_id): the name of each conversation's directory
DirName == [t \in Tenants |-> IF t = "t1" THEN <<"t", "1">> ELSE <<"t", "2">>]

\* where the operating system is after following directory `part` from
\* place `at`, in the tree `tree` of all conversations: "input", "root",
\* "output" and "cache" are directories of conversation t, "base" is
\* base_dir, "outside" is anywhere above it, and "missing" means the
\* directory does not exist
StepInto(tree, at, part) ==
    IF at.dir \in {"missing", "outside"} \/ part = <<>> \/ part = <<".">> THEN at
    ELSE IF part = <<".", ".">>
      THEN IF at.dir \in {"input", "output", "cache"} THEN [at EXCEPT !.dir = "root"]
           ELSE IF at.dir = "root" THEN [at EXCEPT !.dir = "base"]
           ELSE [at EXCEPT !.dir = "outside"]
    ELSE IF at.dir = "base"
      THEN IF \E u \in Tenants : DirName[u] = part /\ tree[u].root
             THEN [dir |-> "root", t |-> CHOOSE u \in Tenants : DirName[u] = part]
           ELSE [at EXCEPT !.dir = "missing"]
    ELSE IF at.dir = "root"
      THEN IF part = <<"i", "n", "p", "u", "t">> /\ tree[at.t].input
             THEN [at EXCEPT !.dir = "input"]
           ELSE IF part = <<"o", "u", "t", "p", "u", "t">> /\ tree[at.t].output
             THEN [at EXCEPT !.dir = "output"]
           ELSE IF part = <<"c", "a", "c", "h", "e">> /\ tree[at.t].cache
             THEN [at EXCEPT !.dir = "cache"]
           ELSE [at EXCEPT !.dir = "missing"]
    ELSE [at EXCEPT !.dir = "missing"]

RECURSIVE Walk(_, _, _)
Walk(tree, at, parts) ==
    IF parts = <<>> THEN at ELSE Walk(tree, StepInto(tree, at, Head(parts)), Tail(parts))

\* input_dir / filename, as open() resolves it: the directory the file is
\* in and its name there.  A filename that starts with "/" replaces
\* input_dir altogether.
ResolvePath(tree, t, filename) ==
    LET parts == split_sep(filename, <<"/">>)
        start == IF Len(filename) >= 1 /\ filename[1] = "/"
                   THEN [dir |-> "outside", t |-> t]
                 ELSE [dir |-> "input", t |-> t]
        at == Walk(tree, start, SubSeq(parts, 1, Len(parts) - 1))
    IN  [dir |-> at.dir, t |-> at.t, name |-> parts[Len(parts)]]

\* Path.write_text on the file at place `at`; nothing of a file outside
\* every conversation is kept
WriteAt(tree, at, file) ==
    IF at.dir = "input"
      THEN [tree EXCEPT ![at.t] = WriteFile(tree[at.t], at.name, file)]
    ELSE IF at.dir \in {"root", "output", "cache"}
      THEN [tree EXCEPT ![at.t].stray =
              [m \in (DOMAIN @) \cup {<<at.dir, at.name>>} |->
                  IF m = <<at.dir, at.name>> THEN file ELSE @[m]]]
    ELSE tree

\* every order in which a directory scan may yield the names of S
Orders(S) ==
    {q \in [1..Cardinality(S) -> S] : \A i, j \in 1..Cardinality(S) : i # j => q[i] # q[j]}

(***************************************************************************)
(* _create_settings_yaml: the document is a function of the settings; the  *)
(* remaining keys are literals of the template.                            *)
(***************************************************************************)
create_settings_yaml(st) ==
    [present |-> TRUE, model |-> st.openai_model,
     embedding_model |-> st.openai_embedding_model]

(***************************************************************************)
(* Results and calls.  A result is a record of one shape: kind says which  *)
(* field holds the value (None: kind "none").                              *)
(***************************************************************************)
NoStats == [has_index |-> FALSE, has_documents |-> FALSE, document_count |-> 0,
            total_characters |-> 0, artifact_count |-> 0]

RetNone == [kind |-> "none", b |-> FALSE, s |-> <<>>, d |-> NoStats]
RetBool(b) == [RetNone EXCEPT !.kind = "bool", !.b = b]
RetStr(s) == [RetNone EXCEPT !.kind = "str", !.s = s]
RetList(l) == [RetNone EXCEPT !.kind = "list", !.s = l]
RetDict(d) == [RetNone EXCEPT !.kind = "dict", !.d = d]

NoArgs == [filename |-> <<>>, content |-> <<>>, debug |-> FALSE, query |-> <<>>,
           method |-> "", max_results |-> 0]

\* op: the method called; pc: "idle", "communicate" (awaiting
\* process.communicate()) or "done"; exec: calls of create_subprocess_exec;
\* argv: what the process was started with; out: the diagnostics printed;
\* ret: the value returned; raised: an exception left the method;
\* txt_files: the local of that name (n_txt: its length, where the order
\* is not used); total_chars: the local of that name; top:
\* relevant[:max_results]; spawn: how create_subprocess_exec ended; proc:
\* what communicate() returned
NoArgv == [cmd |-> "", method |-> "", query |-> <<>>]

NoProc == [returncode |-> 0, stdout |-> [kind |-> "text", text |-> <<>>],
           stderr |-> [kind |-> "text", text |-> <<>>]]

IdleCall ==
    [op |-> "idle", pc |-> "idle", t |-> "", args |-> NoArgs, exec |-> 0,
     argv |-> NoArgv, out |-> {}, ret |-> RetNone, raised |-> FALSE,
     txt_files |-> <<>>, n_txt |-> 0, total_chars |-> 0, top |-> <<>>,
     spawn |-> "", proc |-> NoProc]

NewCall(op, t, args) == [IdleCall EXCEPT !.op = op, !.pc = "done", !.t = t, !.args = args]

\* the latest step: which call it belongs to, and whether the conversation
\* directory existed when the step began
Event(c, op, t, phase) ==
    [c |-> c, op |-> op, t |-> t, phase |-> phase,
     existed |-> IF t \in Tenants THEN fs[t].root ELSE FALSE]

\* one process at a time: a call waits while any process is awaited
CanCall_one_process(c) ==
    /\ \A o \in Callers : call[o].pc # "communicate"
    /\ nops < MaxOps

\* a caller may start a call when it has none in flight
CanCall(c) ==
    /\ call[c].pc # "communicate"
    /\ nops < MaxOps

(***************************************************************************)
(* Documents.                                                              *)
(***************************************************************************)
\* a text of n characters: sentences of 48 letters, each followed by a
\* period and a space
Gen(n) ==
    [i \in 1..n |-> IF i % 50 = 49 THEN "." ELSE IF i % 50 = 0 THEN " " ELSE "a"]

DotTxt == <<".", "t", "x", "t">>

\* PurePath.suffix: from the last dot of the name, unless that dot starts or
\* ends the name
suffix(name) ==
    LET dots == {i \in 1..Len(name) : name[i] = "."}
    IN  IF dots = {} THEN <<>>
        ELSE LET i == SetMax(dots)
             IN  IF 1 < i /\ i < Len(name) THEN SubSeq(name, i, Len(name)) ELSE <<>>

\* PurePath.name: the last component of the path
basename(path) ==
    LET slashes == {i \in 1..Len(path) : path[i] = "/"}
    IN  IF slashes = {} THEN path ELSE SubSeq(path, SetMax(slashes) + 1, Len(path))

\* PurePath.stem
stem(path) ==
    LET name == basename(path)
    IN  SubSeq(name, 1, Len(name) - Len(suffix(name)))

\* .txt put after the whole name
normalize_filename_appended(filename) ==
    IF ~endswith(filename, DotTxt) THEN basename(filename) \o DotTxt ELSE filename

\* save_document, lines 73-75
normalize_filename(filename) ==
    IF ~endswith(filename, DotTxt) THEN stem(filename) \o DotTxt ELSE filename

ParaBreak == <<"\n", "\n">>

\* paragraph breaks from 200 characters on
normalize_content_from_200(content) ==
    LET c1 == strip(content)
        c2 == IF ~contains(c1, ParaBreak) /\ Len(c1) >= 200
                THEN replace(c1, <<".", " ">>, <<".", "\n", "\n">>)
                ELSE c1
    IN  IF ~endswith(c2, <<"\n">>) THEN c2 \o <<"\n">> ELSE c2

\* save_document, lines 78-91
normalize_content(content) ==
    LET c1 == strip(content)
        c2 == IF ~contains(c1, ParaBreak) /\ Len(c1) > 200
                THEN replace(c1, <<".", " ">>, <<".", "\n", "\n">>)
                ELSE c1
    IN  IF ~endswith(c2, <<"\n">>) THEN c2 \o <<"\n">> ELSE c2

\* the diagnostics save_document prints
SaveOut(content) ==
    IF Len(strip(content)) < 100 THEN {"short_document"} ELSE {}

F_notes_docx == <<"n", "o", "t", "e", "s", ".", "d", "o", "c", "x">>
F_a_txt == <<"a", ".", "t", "x", "t">>
F_notes_txt == <<"n", "o", "t", "e", "s", ".", "t", "x", "t">>

\* the uploads the model draws from
SaveNames == {F_notes_docx, F_a_txt}
SaveContents == {Gen(39), Gen(49), Gen(250)}

\* more names: a path, two extensions, no extension, a trailing dot, and
\* names ending in .txt that lead out of the input directory
F_dir_notes_pdf == <<"d", "i", "r", "/">> \o <<"n", "o", "t", "e", "s", ".", "p", "d", "f">>
F_archive_tar_gz == <<"a", "r", "c", "h", "i", "v", "e", ".", "t", "a", "r", ".", "g", "z">>
F_README == <<"R", "E", "A", "D", "M", "E">>
F_notes_dot == <<"n", "o", "t", "e", "s", ".">>
F_up_a_txt == <<".", ".", "/">> \o F_a_txt
F_sub_a_txt == <<"s", "u", "b", "/">> \o F_a_txt
F_other_a_txt ==
    <<".", ".", "/", ".", ".", "/", "t", "2", "/", "i", "n", "p", "u", "t", "/">> \o F_a_txt

DocNames ==
    {F_notes_docx, F_a_txt, F_notes_txt, F_dir_notes_pdf, F_archive_tar_gz, F_README,
     F_notes_dot, F_up_a_txt, F_sub_a_txt, F_other_a_txt}

\* more contents: 200 and 201 characters with sentences, surrounding
\* whitespace, a paragraph break in a long text, and nothing at all
D_200 == Gen(199) \o <<"z">>
D_201 == Gen(201)
D_padded == <<" ", "\n">> \o Gen(120) \o <<"\n", " ">>
D_paragraphs == Gen(120) \o <<"z">> \o ParaBreak \o Gen(120)
D_empty == <<>>

DocContents == {Gen(39), D_200, D_201, D_padded, D_paragraphs, D_empty, Gen(250)}

\* normalize_content and SaveOut on each upload, computed once
NormalizedContent == [d \in SaveContents \cup DocContents |-> normalize_content(d)]
SaveOutOf == [d \in SaveContents \cup DocContents |-> SaveOut(d)]

save_document(c, t, filename, content) ==
    /\ CanCall(c)
    /\ LET tree == [fs EXCEPT ![t] = get_input_dir(fs[t])]
           name == normalize_filename(filename)
           text == NormalizedContent[content]
           at == ResolvePath(tree, t, name)
           cl == [NewCall("save", t, [NoArgs EXCEPT !.filename = filename,
                                                     !.content = content])
                     EXCEPT !.out = SaveOutOf[content]]
       IN  IF at.dir = "missing"
             THEN \* write_text raises FileNotFoundError: not caught
                  /\ fs' = tree
                  /\ call' = [call EXCEPT ![c] = [cl EXCEPT !.raised = TRUE]]
           ELSE /\ fs' = WriteAt(tree, at, TextFile(text))
                /\ call' = [call EXCEPT ![c] = [cl EXCEPT !.ret = RetStr(name)]]
    /\ last' = Event(c, "save", t, "return")
    /\ nops' = nops + 1
    /\ UNCHANGED settings

\* list_documents: (name, len(content)) for each text file, in scan order
list_documents(c, t) ==
    /\ CanCall(c)
    /\ LET w == get_input_dir(fs[t])
       IN  /\ \E order \in Orders(glob_txt(w)) :
                call' = [call EXCEPT ![c] =
                   IF \A n \in glob_txt(w) : Readable(w, n)
                     THEN [NewCall("list", t, NoArgs) EXCEPT
                             !.txt_files = order,
                             !.ret = RetList([i \in 1..Len(order) |->
                                        <<order[i], Len(w.files[order[i]].text)>>])]
                     ELSE \* read_text raises UnicodeDecodeError: not caught
                          [NewCall("list", t, NoArgs) EXCEPT
                             !.txt_files = order, !.raised = TRUE]]
           /\ fs' = [fs EXCEPT ![t] = w]
    /\ last' = Event(c, "list", t, "return")
    /\ nops' = nops + 1
    /\ UNCHANGED settings

\* delete_conversation_data: get_conversation_dir creates the directory,
\* conv_dir.exists() is then tested and shutil.rmtree removes the tree.  The
\* file system of the model does not fail, so rmtree does not raise.
delete_conversation_data(c, t) ==
    /\ CanCall(c)
    /\ LET w == get_conversation_dir(fs[t])
       IN  IF w.root
             THEN /\ fs' = [fs EXCEPT ![t] = Absent]
                  /\ call' = [call EXCEPT ![c] =
                        [NewCall("delete", t, NoArgs) EXCEPT
                           !.out = {"deleted"}, !.ret = RetBool(TRUE)]]
             ELSE /\ fs' = [fs EXCEPT ![t] = w]
                  /\ call' = [call EXCEPT ![c] =
                        [NewCall("delete", t, NoArgs) EXCEPT !.ret = RetBool(FALSE)]]
    /\ last' = Event(c, "delete", t, "return")
    /\ nops' = nops + 1
    /\ UNCHANGED settings

(***************************************************************************)
(* The external engine, `graphrag index` and `graphrag query`.             *)
(***************************************************************************)
\* what asyncio.create_subprocess_exec does: the process starts, the binary
\* is not in PATH (FileNotFoundError), or another OSError is raised
SpawnOutcomes == {"started", "not_found", "os_error"}

\* the artifact tables the engine writes into output/
ArtifactNames == {"create_final_entities.parquet", "create_final_relationships.parquet"}

T_Empty_DataFrame == <<"E","m","p","t","y"," ","D","a","t","a","F","r","a","m","e">>
T_create_base_text_units == <<"c","r","e","a","t","e","_","b","a","s","e","_","t","e","x","t","_","u","n","i","t","s">>
T_answer == <<" ", "T", "h", "e", " ", "t", "e", "r", "m", ".", "\n">>
T_blank == <<" ", "\n">>

ProcResult(rc, stdout, stderr) == [returncode |-> rc, stdout |-> stdout, stderr |-> stderr]

\* what communicate() may hand back from `graphrag index`
IndexResults ==
    {ProcResult(0, TextFile(<<>>), TextFile(<<>>)),
     ProcResult(0, BytesFile, TextFile(<<>>)),
     ProcResult(1, TextFile(<<>>), TextFile(<<>>)),
     ProcResult(1, TextFile(T_Empty_DataFrame), TextFile(T_answer)),
     ProcResult(1, TextFile(T_create_base_text_units), BytesFile)}

\* what communicate() may hand back from `graphrag query`
QueryResults ==
    {ProcResult(0, TextFile(T_answer), TextFile(<<>>)),
     ProcResult(0, TextFile(T_blank), TextFile(<<>>)),
     ProcResult(0, TextFile(<<>>), TextFile(T_answer)),
     ProcResult(0, BytesFile, TextFile(<<>>)),
     ProcResult(1, TextFile(T_answer), TextFile(<<>>)),
     ProcResult(1, TextFile(<<>>), BytesFile)}

\* bytes.decode() raises UnicodeDecodeError
DecodeRaises(res) == res.stdout.kind = "bytes" \/ res.stderr.kind = "bytes"

(***************************************************************************)
(* build_index.                                                            *)
(***************************************************************************)
RECURSIVE SumChars(_, _)
SumChars(w, names) ==
    IF names = {} THEN 0
    ELSE LET n == CHOOSE x \in names : TRUE
         IN  Len(w.files[n].text) + SumChars(w, names \ {n})

\* lines 185-191: the floor and the soft threshold on the total volume
InsufficientContent(total_chars) == total_chars < 50

LowVolume(total_chars) == total_chars < 200

\* the credential check left out
NoApiKey_unchecked(st) == FALSE

\* lines 197-200 and 321-323
NoApiKey(st) == st.openai_api_key = ""

\* the checks on the documents print their diagnostic and go on
BuildPreflight_warn_only(w0, st, debug) ==
    LET w == get_cache_dir(get_output_dir(get_input_dir(get_conversation_dir(w0))))
        txt_files == glob_txt(w)
        readable == {n \in txt_files : Readable(w, n)}
        total_chars == SumChars(w, readable)
        warn == (IF txt_files = {} THEN {"no_documents"} ELSE {})
                  \cup (IF InsufficientContent(total_chars)
                          THEN {"insufficient_content"} ELSE {})
                  \cup (IF LowVolume(total_chars) THEN {"low_volume"} ELSE {})
        r == [ok |-> FALSE, w |-> w, out |-> warn, n_txt |-> Cardinality(txt_files),
              total_chars |-> total_chars]
    IN  IF NoApiKey(st)
          THEN [r EXCEPT !.out = warn \cup {"no_api_key"}]
        ELSE [r EXCEPT !.ok = TRUE, !.w = [w EXCEPT !.yaml = create_settings_yaml(st)],
                       !.out = warn \cup {"settings_written"}]

\* settings.yaml written only where there is none
BuildPreflight_keep_yaml(w0, st, debug) ==
    LET w == get_cache_dir(get_output_dir(get_input_dir(get_conversation_dir(w0))))
        txt_files == glob_txt(w)
        failed == [ok |-> FALSE, w |-> w, out |-> {}, n_txt |-> Cardinality(txt_files),
                   total_chars |-> 0]
    IN  IF txt_files = {} THEN [failed EXCEPT !.out = {"no_documents"}]
        ELSE IF \E n \in txt_files : ~Readable(w, n) THEN [failed EXCEPT !.out = {"read_error"}]
        ELSE IF InsufficientContent(SumChars(w, txt_files))
          THEN [failed EXCEPT !.out = {"insufficient_content"},
                              !.total_chars = SumChars(w, txt_files)]
        ELSE IF st.openai_api_key = ""
          THEN [failed EXCEPT !.out = {"no_api_key"}, !.total_chars = SumChars(w, txt_files)]
        ELSE [ok |-> TRUE,
              w |-> IF w.yaml.present THEN w ELSE [w EXCEPT !.yaml = create_settings_yaml(st)],
              out |-> {"settings_written"}, n_txt |-> Cardinality(txt_files),
              total_chars |-> SumChars(w, txt_files)]

\* lines 159-220: the workspace after the pre-flight checks, and what the
\* call has printed and decided when it reaches create_subprocess_exec
BuildPreflight(w0, st, debug) ==
    LET w == get_cache_dir(get_output_dir(get_input_dir(get_conversation_dir(w0))))
        txt_files == glob_txt(w)
        total_chars == SumChars(w, txt_files)
        warn == IF LowVolume(total_chars) THEN {"low_volume"} ELSE {}
        dump == IF debug THEN {"debug_input_files"} ELSE {}
        r == [ok |-> FALSE, w |-> w, out |-> {}, n_txt |-> Cardinality(txt_files),
              total_chars |-> 0]
    IN  IF txt_files = {}
          THEN [r EXCEPT !.out = {"no_documents"}]
        ELSE IF \E n \in txt_files : ~Readable(w, n)
          THEN [r EXCEPT !.out = {"read_error"}]
        ELSE IF InsufficientContent(total_chars)
          THEN [r EXCEPT !.out = {"insufficient_content"}, !.total_chars = total_chars]
        ELSE IF NoApiKey(st)
          THEN [r EXCEPT !.out = warn \cup dump \cup {"no_api_key"},
                         !.total_chars = total_chars]
        ELSE [r EXCEPT !.ok = TRUE, !.w = [w EXCEPT !.yaml = create_settings_yaml(st)],
                       !.out = warn \cup dump \cup {"settings_written"},
                       !.total_chars = total_chars]

\* a second create_subprocess_exec after the first has failed
BuildSpawn_again(cl, outcome) ==
    LET tried == [cl EXCEPT !.exec = cl.exec + 1, !.spawn = outcome,
                            !.argv = [NoArgv EXCEPT !.cmd = "index"]]
    IN  IF outcome = "started" THEN [tried EXCEPT !.pc = "communicate"]
        ELSE [tried EXCEPT !.exec = @ + 1, !.spawn = "started", !.pc = "communicate"]

\* lines 222-230 and 273-283: the call after create_subprocess_exec
BuildSpawn(cl, outcome) ==
    LET tried == [cl EXCEPT !.exec = cl.exec + 1, !.spawn = outcome,
                            !.argv = [NoArgv EXCEPT !.cmd = "index"]]
    IN  CASE outcome = "started" -> [tried EXCEPT !.pc = "communicate"]
          [] outcome = "not_found" ->
               [tried EXCEPT !.out = @ \cup {"cli_not_found"}, !.ret = RetBool(FALSE)]
          [] OTHER ->
               [tried EXCEPT !.out = @ \cup {"exception"} \cup
                                 (IF cl.args.debug THEN {"traceback"} ELSE {}),
                             !.ret = RetBool(FALSE)]

build_index(c, t, debug) ==
    /\ CanCall(c)
    /\ LET pre == BuildPreflight(fs[t], settings, debug)
           cl == [NewCall("build", t, [NoArgs EXCEPT !.debug = debug])
                    EXCEPT !.out = pre.out, !.n_txt = pre.n_txt,
                           !.total_chars = pre.total_chars]
       IN  /\ fs' = [fs EXCEPT ![t] = pre.w]
           /\ IF pre.ok
                THEN \E outcome \in SpawnOutcomes :
                        call' = [call EXCEPT ![c] = BuildSpawn(cl, outcome)]
                ELSE call' = [call EXCEPT ![c] = [cl EXCEPT !.ret = RetBool(FALSE)]]
    /\ last' = Event(c, "build", t, "call")
    /\ nops' = nops + 1
    /\ UNCHANGED settings

\* the engine, while build_index awaits communicate(), writes a table
index_process_write(c, a) ==
    /\ call[c].op = "build"
    /\ call[c].pc = "communicate"
    /\ a \notin fs[call[c].t].parquet
    /\ fs' = [fs EXCEPT ![call[c].t] =
                 [get_output_dir(@) EXCEPT !.parquet = @ \cup {a}]]
    /\ last' = Event(c, "build", call[c].t, "write")
    /\ UNCHANGED <<settings, call, nops>>

\* lines 232-271 and 279-283: the call's answer to what communicate() returned
BuildResult(cl, res) ==
    LET got == [cl EXCEPT !.pc = "done", !.proc = res]
    IN  IF DecodeRaises(res)
          THEN [got EXCEPT !.out = @ \cup {"exception"} \cup
                               (IF cl.args.debug THEN {"traceback"} ELSE {}),
                           !.ret = RetBool(FALSE)]
        ELSE IF res.returncode # 0
          THEN [got EXCEPT
                  !.out = @ \cup {"indexing_failed"}
                      \cup (IF contains(res.stdout.text, T_Empty_DataFrame)
                              THEN {"tip_empty_dataframe"} ELSE {})
                      \cup (IF contains(res.stdout.text, T_create_base_text_units)
                              THEN {"tip_text_chunking"} ELSE {}),
                  !.ret = RetBool(FALSE)]
        ELSE [got EXCEPT !.out = @ \cup {"indexing_completed", "artifact_count"},
                         !.ret = RetBool(TRUE)]

build_index_return(c, res) ==
    /\ call[c].op = "build"
    /\ call[c].pc = "communicate"
    /\ call' = [call EXCEPT ![c] = BuildResult(call[c], res)]
    /\ fs' = IF call'[c].ret.b
               THEN [fs EXCEPT ![call[c].t] = get_output_dir(@)]
               ELSE fs
    /\ last' = Event(c, "build", call[c].t, "return")
    /\ UNCHANGED <<settings, nops>>

(***************************************************************************)
(* query.                                                                  *)
(***************************************************************************)
\* lines 316-319
ValidMethod(method) == method \in {"local", "global"}

\* the method handed on as it came
CoerceMethod_as_given(method) == method

CoerceMethod(method) == IF ~ValidMethod(method) THEN "local" ELSE method

\* lines 310-314: artifacts_dir.exists(), tested on the path get_output_dir
\* has just created
IndexDirMissing(w) == ~w.output

\* lines 307-333
QueryPreflight(w0, st, method) ==
    LET w == get_output_dir(get_conversation_dir(w0))
        warn == IF ~ValidMethod(method) THEN {"invalid_method"} ELSE {}
    IN  IF IndexDirMissing(w)
          THEN [ok |-> FALSE, w |-> w, out |-> {"no_index"}]
        ELSE IF NoApiKey(st)
          THEN [ok |-> FALSE, w |-> w, out |-> warn \cup {"no_api_key"}]
        ELSE [ok |-> TRUE, w |-> w, out |-> warn]

\* lines 335-345 and 370-378
QuerySpawn(cl, outcome) ==
    LET tried == [cl EXCEPT !.exec = cl.exec + 1, !.spawn = outcome,
                            !.argv = [cmd |-> "query",
                                      method |-> CoerceMethod(cl.args.method),
                                      query |-> cl.args.query]]
    IN  CASE outcome = "started" -> [tried EXCEPT !.pc = "communicate"]
          [] outcome = "not_found" ->
               [tried EXCEPT !.out = @ \cup {"cli_not_found"}, !.ret = RetNone]
          [] OTHER ->
               [tried EXCEPT !.out = @ \cup {"exception"} \cup
                                 (IF cl.args.debug THEN {"traceback"} ELSE {}),
                             !.ret = RetNone]

query(c, t, text, method, debug) ==
    /\ CanCall(c)
    /\ LET pre == QueryPreflight(fs[t], settings, method)
           cl == [NewCall("query", t, [NoArgs EXCEPT !.query = text,
                                          !.method = method, !.debug = debug])
                    EXCEPT !.out = pre.out]
       IN  /\ fs' = [fs EXCEPT ![t] = pre.w]
           /\ IF pre.ok
                THEN \E outcome \in SpawnOutcomes :
                        call' = [call EXCEPT ![c] = QuerySpawn(cl, outcome)]
                ELSE call' = [call EXCEPT ![c] = cl]
    /\ last' = Event(c, "query", t, "call")
    /\ nops' = nops + 1
    /\ UNCHANGED settings

\* stdout returned as decoded, neither trimmed nor tested for emptiness
QueryResult_untrimmed(cl, res) ==
    LET got == [cl EXCEPT !.pc = "done", !.proc = res]
    IN  IF DecodeRaises(res)
          THEN [got EXCEPT !.out = @ \cup {"exception"}, !.ret = RetNone]
        ELSE IF res.returncode # 0
          THEN [got EXCEPT !.out = @ \cup {"query_error"}, !.ret = RetNone]
        ELSE [got EXCEPT !.out = @ \cup {"query_completed"},
                         !.ret = RetStr(res.stdout.text)]

\* with debug set, the raw stdout returned
QueryResult_debug_raw(cl, res) ==
    LET got == [cl EXCEPT !.pc = "done", !.proc = res]
    IN  IF DecodeRaises(res) \/ res.returncode # 0 \/ strip(res.stdout.text) = <<>>
          THEN [got EXCEPT !.out = @ \cup {"query_error"}, !.ret = RetNone]
        ELSE IF cl.args.debug
          THEN [got EXCEPT !.out = @ \cup {"raw_response_length", "query_completed"},
                           !.ret = RetStr(res.stdout.text)]
        ELSE [got EXCEPT !.out = @ \cup {"query_completed"},
                         !.ret = RetStr(strip(res.stdout.text))]

\* lines 347-378
QueryResult(cl, res) ==
    LET got == [cl EXCEPT !.pc = "done", !.proc = res]
        stdout_text == strip(res.stdout.text)
        raw == IF cl.args.debug THEN {"raw_response_length"} ELSE {}
    IN  IF DecodeRaises(res)
          THEN [got EXCEPT !.out = @ \cup {"exception"} \cup
                               (IF cl.args.debug THEN {"traceback"} ELSE {}),
                           !.ret = RetNone]
        ELSE IF res.returncode # 0
          THEN [got EXCEPT !.out = @ \cup {"query_error"}, !.ret = RetNone]
        ELSE IF stdout_text = <<>>
          THEN [got EXCEPT !.out = @ \cup raw \cup {"empty_response"}, !.ret = RetNone]
        ELSE [got EXCEPT !.out = @ \cup raw \cup {"query_completed"},
                         !.ret = RetStr(stdout_text)]

query_return(c, res) ==
    /\ call[c].op = "query"
    /\ call[c].pc = "communicate"
    /\ call' = [call EXCEPT ![c] = QueryResult(call[c], res)]
    /\ last' = Event(c, "query", call[c].t, "return")
    /\ UNCHANGED <<fs, settings, nops>>

(***************************************************************************)
(* simple_search.                                                          *)
(***************************************************************************)
\* seq[:n], also for a negative n
SliceTo(seq, n) ==
    IF n >= 0 THEN prefix(seq, n)
    ELSE prefix(seq, IF Len(seq) + n > 0 THEN Len(seq) + n ELSE 0)

\* the test on the length of the paragraph left out
ParagraphEntry_any_length(raw, name, query_words) ==
    LET paragraph == strip(raw)
        words == ToSet(split(lower(paragraph)))
        overlap == Cardinality(words \cap query_words)
    IN  IF overlap >= 1
          THEN <<[overlap |-> overlap, chunk |-> prefix(paragraph, 800), filename |-> name]>>
        ELSE <<>>

\* lines 409-419: the entries one paragraph of file `name` adds to relevant
ParagraphEntry(raw, name, query_words) ==
    LET paragraph == strip(raw)
        words == ToSet(split(lower(paragraph)))
        overlap == Cardinality(words \cap query_words)
    IN  IF Len(paragraph) < 50 THEN <<>>
        ELSE IF overlap >= 1
          THEN <<[overlap |-> overlap, chunk |-> prefix(paragraph, 800), filename |-> name]>>
        ELSE <<>>

RECURSIVE ParagraphEntries(_, _, _)
ParagraphEntries(paragraphs, name, query_words) ==
    IF paragraphs = <<>> THEN <<>>
    ELSE ParagraphEntry(Head(paragraphs), name, query_words)
            \o ParagraphEntries(Tail(paragraphs), name, query_words)

\* lines 404-423: relevant after the loop over txt_files; a file that does
\* not decode is reported and skipped
RECURSIVE Relevant(_, _, _)
Relevant(w, txt_files, query_words) ==
    IF txt_files = <<>> THEN <<>>
    ELSE LET name == Head(txt_files)
             here == IF Readable(w, name)
                       THEN ParagraphEntries(split_sep(w.files[name].text, ParaBreak),
                                             name, query_words)
                       ELSE <<>>
         IN  here \o Relevant(w, Tail(txt_files), query_words)

\* a descending sort that reverses the entries with the same overlap (an
\* ascending sort, then reversed)
RECURSIVE SortByOverlap_reversed(_)
SortByOverlap_reversed(entries) ==
    IF entries = <<>> THEN <<>>
    ELSE LET x == Head(entries)
             rest == SortByOverlap_reversed(Tail(entries))
             before == SelectSeq(rest, LAMBDA y : y.overlap >= x.overlap)
             after == SelectSeq(rest, LAMBDA y : y.overlap < x.overlap)
         IN  before \o <<x>> \o after

\* list.sort(key=lambda x: x[0], reverse=True): stable, so entries with the
\* same overlap keep their order
RECURSIVE SortByOverlap(_)
SortByOverlap(entries) ==
    IF entries = <<>> THEN <<>>
    ELSE LET x == Head(entries)
             rest == SortByOverlap(Tail(entries))
             before == SelectSeq(rest, LAMBDA y : y.overlap > x.overlap)
             after == SelectSeq(rest, LAMBDA y : y.overlap <= x.overlap)
         IN  before \o <<x>> \o after

T_From == <<"[", "F", "r", "o", "m", ":", " ">>
T_Separator == <<"\n", "\n", "-", "-", "-", "\n", "\n">>

\* line 434
FormatChunk(e) == T_From \o e.filename \o <<"]", "\n">> \o e.chunk

\* lines 398-439, given the order in which glob yielded the files
SearchResult(cl, w, txt_files) ==
    LET query_words == ToSet(split(lower(cl.args.query)))
        relevant == Relevant(w, txt_files, query_words)
        top == SliceTo(SortByOverlap(relevant), cl.args.max_results)
        top_chunks == [i \in 1..Len(top) |-> FormatChunk(top[i])]
        unread == IF \E i \in 1..Len(txt_files) : ~Readable(w, txt_files[i])
                    THEN {"read_error"} ELSE {}
    IN  IF txt_files = <<>> THEN [cl EXCEPT !.ret = RetNone]
        ELSE IF relevant = <<>>
          THEN [cl EXCEPT !.txt_files = txt_files, !.out = unread, !.ret = RetNone]
        ELSE [cl EXCEPT !.txt_files = txt_files, !.top = top,
                        !.out = unread \cup {"found_chunks"},
                        !.ret = RetStr(join(T_Separator, top_chunks))]

simple_search(c, t, text, max_results) ==
    /\ CanCall(c)
    /\ LET w == get_input_dir(fs[t])
           cl == NewCall("search", t, [NoArgs EXCEPT !.query = text,
                                                      !.max_results = max_results])
       IN  /\ fs' = [fs EXCEPT ![t] = w]
           /\ \E txt_files \in Orders(glob_txt(w)) :
                 call' = [call EXCEPT ![c] = SearchResult(cl, w, txt_files)]
    /\ last' = Event(c, "search", t, "return")
    /\ nops' = nops + 1
    /\ UNCHANGED settings

(***************************************************************************)
(* Status helpers.                                                         *)
(***************************************************************************)
\* has_index: the value returned (the directory is created first)
has_index(w) ==
    LET artifacts_dir == get_output_dir(w)
    IN  artifacts_dir.output /\ Cardinality(glob_parquet(artifacts_dir)) > 0

has_documents(w) == Cardinality(glob_txt(get_input_dir(w))) > 0

\* get_index_stats: a file that does not decode is counted, its characters
\* are not
get_index_stats(c, t) ==
    /\ CanCall(c)
    /\ LET w == get_output_dir(get_input_dir(fs[t]))
           readable == {n \in glob_txt(w) : Readable(w, n)}
           stats == [has_index |-> has_index(fs[t]),
                     has_documents |-> has_documents(fs[t]),
                     document_count |-> Cardinality(glob_txt(w)),
                     total_characters |-> SumChars(w, readable),
                     artifact_count |-> IF w.output THEN Cardinality(glob_parquet(w)) ELSE 0]
       IN  /\ fs' = [fs EXCEPT ![t] = w]
           /\ call' = [call EXCEPT ![c] =
                  [NewCall("stats", t, NoArgs) EXCEPT !.ret = RetDict(stats)]]
    /\ last' = Event(c, "stats", t, "return")
    /\ nops' = nops + 1
    /\ UNCHANGED settings

(***************************************************************************)
(* The service after construction: base_dir exists and holds whatever      *)
(* earlier runs of the service left in it, here for one conversation (the  *)
(* other has never been used).                                             *)
(***************************************************************************)
StaleYaml == [present |-> TRUE, model |-> "gpt-3.5-turbo",
              embedding_model |-> "text-embedding-ada-002"]

\* a conversation directory whose only document does not decode
WsCorrupt ==
    [Absent EXCEPT !.root = TRUE, !.input = TRUE,
                   !.files = [n \in {F_a_txt} |-> BytesFile]]

\* a conversation indexed by an earlier run
WsBuilt ==
    [root |-> TRUE, input |-> TRUE, output |-> TRUE, cache |-> TRUE,
     files |-> [n \in {F_a_txt} |-> TextFile(normalize_content(Gen(250)))],
     yaml |-> StaleYaml, parquet |-> {"create_final_entities.parquet"},
     stray |-> NoFiles]

InitWorkspaces == {Absent, WsCorrupt, WsBuilt}

NoEvent == Event("", "init", "", "")

Init ==
    /\ \E w \in InitWorkspaces : fs = [t \in Tenants |-> IF t = "t1" THEN w ELSE Absent]
    /\ settings \in {Settings(k) : k \in ApiKeys}
    /\ call = [c \in Callers |-> IdleCall]
    /\ last = NoEvent
    /\ nops = 0

Methods == {"local", "global", "drift"}

Q_term == <<"t", "e", "r", "m">>

QueryTexts == {Q_term}

\* simple_search(..., max_results: int = 3)
DefaultMaxResults == 3

Next ==
    \/ \E c \in Serial, t \in Tenants, f \in SaveNames, d \in SaveContents :
          save_document(c, t, f, d)
    \/ \E c \in Serial, t \in Tenants : list_documents(c, t)
    \/ \E c \in Serial, t \in Tenants : delete_conversation_data(c, t)
    \/ \E c \in Serial, t \in Tenants, debug \in BOOLEAN : build_index(c, t, debug)
    \/ \E c \in Serial, a \in ArtifactNames : index_process_write(c, a)
    \/ \E c \in Serial, res \in IndexResults : build_index_return(c, res)
    \/ \E c \in Serial, t \in Tenants, q \in QueryTexts, m \in Methods, debug \in BOOLEAN :
          query(c, t, q, m, debug)
    \/ \E c \in Serial, res \in QueryResults : query_return(c, res)
    \/ \E c \in Serial, t \in Tenants, q \in QueryTexts :
          simple_search(c, t, q, DefaultMaxResults)
    \/ \E c \in Serial, t \in Tenants : get_index_stats(c, t)

Spec == Init /\ [][Next]_vars

(***************************************************************************)
(* Fallback search on its own: the input directory of one conversation     *)
(* holds documents whose paragraphs score differently against the query,   *)
(* and one call, a search, is left to make.                                *)
(***************************************************************************)
\* "The lease term is five years." (29 characters)
P_spec ==
    <<"T", "h", "e", " ", "l", "e", "a", "s", "e", " ", "t", "e", "r", "m",
      " ", "i", "s", " ", "f", "i", "v", "e", " ", "y", "e", "a", "r", "s",
      ".">>

\* "The lease term is five years. Rent is due on the first day." (59 characters)
P_lease ==
    <<"T", "h", "e", " ", "l", "e", "a", "s", "e", " ", "t", "e", "r", "m",
      " ", "i", "s", " ", "f", "i", "v", "e", " ", "y", "e", "a", "r", "s",
      ".", " ", "R", "e", "n", "t", " ", "i", "s", " ", "d", "u", "e", " ",
      "o", "n", " ", "t", "h", "e", " ", "f", "i", "r", "s", "t", " ", "d",
      "a", "y", ".">>

\* "Every term of this contract is binding on both parties." (55 characters)
P_term ==
    <<"E", "v", "e", "r", "y", " ", "t", "e", "r", "m", " ", "o", "f", " ",
      "t", "h", "i", "s", " ", "c", "o", "n", "t", "r", "a", "c", "t", " ",
      "i", "s", " ", "b", "i", "n", "d", "i", "n", "g", " ", "o", "n", " ",
      "b", "o", "t", "h", " ", "p", "a", "r", "t", "i", "e", "s", ".">>

\* "A lease may end early when the term is cut by the landlord." (59 characters)
P_tie ==
    <<"A", " ", "l", "e", "a", "s", "e", " ", "m", "a", "y", " ", "e", "n",
      "d", " ", "e", "a", "r", "l", "y", " ", "w", "h", "e", "n", " ", "t",
      "h", "e", " ", "t", "e", "r", "m", " ", "i", "s", " ", "c", "u", "t",
      " ", "b", "y", " ", "t", "h", "e", " ", "l", "a", "n", "d", "l", "o",
      "r", "d", ".">>

\* "Payment shall be made within thirty days of an invoice." (55 characters)
P_none ==
    <<"P", "a", "y", "m", "e", "n", "t", " ", "s", "h", "a", "l", "l", " ",
      "b", "e", " ", "m", "a", "d", "e", " ", "w", "i", "t", "h", "i", "n",
      " ", "t", "h", "i", "r", "t", "y", " ", "d", "a", "y", "s", " ", "o",
      "f", " ", "a", "n", " ", "i", "n", "v", "o", "i", "c", "e", ".">>

\* "lease term" (10 characters)
Q_lease_term ==
    <<"l", "e", "a", "s", "e", " ", "t", "e", "r", "m">>

\* "zebra" (5 characters)
Q_zebra ==
    <<"z", "e", "b", "r", "a">>

\* "The lease TERM" (14 characters)
Q_three ==
    <<"T", "h", "e", " ", "l", "e", "a", "s", "e", " ", "T", "E", "R", "M">>

\* a paragraph of 806 characters: "lease" and a word of 800 letters
P_long == <<"l", "e", "a", "s", "e", " ">> \o [i \in 1..800 |-> "x"]

\* the documents, as save_document stores them
DocA == normalize_content(P_spec \o ParaBreak \o P_term \o ParaBreak \o P_lease)
DocB == normalize_content(P_tie \o ParaBreak \o P_none)
DocC == normalize_content(P_long)
DocD == normalize_content(P_spec)

SearchDocs == {TextFile(DocA), TextFile(DocB), TextFile(DocC), TextFile(DocD), BytesFile}

SearchNames == {F_a_txt, F_notes_txt}

SearchQueries == {Q_lease_term, Q_zebra, Q_three}

MaxResultsArgs == {1, 2, DefaultMaxResults}

InputDirs ==
    UNION {[names -> SearchDocs] : names \in SUBSET SearchNames}

InitSearch ==
    /\ \E files \in InputDirs :
          fs = [t \in Tenants |->
                  IF t = "t1"
                    THEN IF files = NoFiles THEN Absent
                         ELSE [Absent EXCEPT !.root = TRUE, !.input = TRUE, !.files = files]
                    ELSE Absent]
    /\ settings = Settings("sk-key")
    /\ call = [c \in Callers |-> IdleCall]
    /\ last = NoEvent
    /\ nops = MaxOps - 1

NextSearch ==
    \E c \in Serial, q \in SearchQueries, k \in MaxResultsArgs :
        simple_search(c, "t1", q, k)

SearchSpec == InitSearch /\ [][NextSearch]_vars

(***************************************************************************)
(* The documents of one conversation on their own: saves under every name  *)
(* and content of DocNames and DocContents, listings and deletes, by one   *)
(* caller.  The other conversation has an input directory.                 *)
(***************************************************************************)
InitDocs ==
    /\ fs = [t \in Tenants |->
               IF t = "t1" THEN Absent ELSE [Absent EXCEPT !.root = TRUE, !.input = TRUE]]
    /\ settings = Settings("sk-key")
    /\ call = [c \in Callers |-> IdleCall]
    /\ last = NoEvent
    /\ nops = 0

NextDocs ==
    \/ \E c \in Serial, f \in DocNames, d \in DocContents : save_document(c, "t1", f, d)
    \/ \E c \in Serial : list_documents(c, "t1")
    \/ \E c \in Serial : delete_conversation_data(c, "t1")

DocSpec == InitDocs /\ [][NextDocs]_vars

(***************************************************************************)
(* Two callers at once (two requests served by the one event loop): a call *)
(* of one may start, and its process may run, while the process of the     *)
(* other is awaited.  Conversation t1 is indexed, t2 has an input          *)
(* directory.                                                              *)
(***************************************************************************)
InitConcurrent ==
    /\ fs = [t \in Tenants |->
               IF t = "t1" THEN WsBuilt ELSE [Absent EXCEPT !.root = TRUE, !.input = TRUE]]
    /\ settings = Settings("sk-key")
    /\ call = [c \in Callers |-> IdleCall]
    /\ last = NoEvent
    /\ nops = 0

ConcurrentNames == {F_a_txt, F_other_a_txt}

NextConcurrent ==
    \/ \E c \in Callers, t \in Tenants, f \in ConcurrentNames : save_document(c, t, f, Gen(39))
    \/ \E c \in Callers, t \in Tenants : list_documents(c, t)
    \/ \E c \in Callers, t \in Tenants : delete_conversation_data(c, t)
    \/ \E c \in Callers, t \in Tenants : build_index(c, t, FALSE)
    \/ \E c \in Callers, a \in ArtifactNames : index_process_write(c, a)
    \/ \E c \in Callers, res \in IndexResults : build_index_return(c, res)
    \/ \E c \in Callers, t \in Tenants : query(c, t, Q_term, "local", FALSE)
    \/ \E c \in Callers, res \in QueryResults : query_return(c, res)
    \/ \E c \in Callers, t \in Tenants : simple_search(c, t, Q_term, DefaultMaxResults)
    \/ \E c \in Callers, t \in Tenants : get_index_stats(c, t)

ConcurrentSpec == InitConcurrent /\ [][NextConcurrent]_vars

(***************************************************************************)
(* The claims.                                                             *)
(***************************************************************************)
BuildCalls == {c \in Callers : call[c].op = "build"}
QueryCalls == {c \in Callers : call[c].op = "query"}
SearchCalls == {c \in Callers : call[c].op = "search"}

\* C1: a build on an input directory without .txt files returns False and
\* never calls create_subprocess_exec.
C1_BuildWithoutDocuments ==
    \A c \in BuildCalls :
        call[c].n_txt = 0 =>
            /\ call[c].pc = "done"
            /\ call[c].ret = RetBool(FALSE)
            /\ call[c].exec = 0

\* a build was called, with the credential set, on a directory without
\* documents
C1_Witness ==
    \E c \in BuildCalls :
        /\ call[c].n_txt = 0
        /\ settings.openai_api_key # ""
        /\ call[c].pc = "done"

\* C2: a query called while the conversation's output directory does not
\* exist returns None at once and does not call create_subprocess_exec.
C2_QueryWithoutOutputDir ==
    [][\A c \in Callers, t \in Tenants :
          (last'.c = c /\ last'.op = "query" /\ last'.t = t /\ last'.phase = "call"
             /\ ~fs[t].output) =>
              /\ call'[c].pc = "done"
              /\ call'[c].ret = RetNone
              /\ call'[c].exec = 0]_vars

\* C3: a delete of an existing workspace returns True and removes the tree,
\* and the delete that follows it at once, on the same conversation,
\* returns False.
C3_DeleteTwice ==
    [][\A c \in Callers, t \in Tenants :
          (last'.c = c /\ last'.op = "delete" /\ last'.t = t) =>
              /\ fs[t].root => (call'[c].ret = RetBool(TRUE) /\ fs'[t] = Absent)
              /\ (/\ last.op = "delete"
                  /\ last.t = t
                  /\ last.existed
                  /\ call[last.c].ret = RetBool(TRUE))
                    => call'[c].ret = RetBool(FALSE)]_vars

\* C4: without a credential, build returns False and query returns None,
\* and neither writes settings.yaml nor calls create_subprocess_exec.
C4_NoCredential ==
    [][settings.openai_api_key = "" =>
          \A c \in Callers :
              (last'.c = c /\ last'.op \in {"build", "query"}) =>
                  /\ call'[c].pc = "done"
                  /\ call'[c].exec = 0
                  /\ fs'[last'.t].yaml = fs[last'.t].yaml
                  /\ last'.op = "build" => call'[c].ret = RetBool(FALSE)
                  /\ last'.op = "query" => call'[c].ret = RetNone]_vars

\* without a credential, a build was called on documents that pass the
\* checks before it
C4_Witness ==
    /\ settings.openai_api_key = ""
    /\ \E c \in BuildCalls : "no_api_key" \in call[c].out

\* C5: once the pre-flight checks have passed and settings.yaml is
\* written, build returns True exactly when the process started and exited
\* with code 0.
C5_BuildOutcome ==
    \A c \in BuildCalls :
        ("settings_written" \in call[c].out /\ call[c].pc = "done") =>
            (call[c].ret = RetBool(TRUE)
                <=> (call[c].spawn = "started" /\ call[c].proc.returncode = 0))

\* C6: with every document readable, a total under 50 characters makes
\* build return False without create_subprocess_exec; a total from 50 up to
\* 199, with the credential set, reaches create_subprocess_exec, prints the
\* low-volume warning and returns what the process reports.
C6_VolumeThresholds ==
    \A c \in BuildCalls :
        (call[c].n_txt >= 1 /\ "read_error" \notin call[c].out) =>
            /\ call[c].total_chars < 50 =>
                  /\ call[c].pc = "done"
                  /\ call[c].ret = RetBool(FALSE)
                  /\ call[c].exec = 0
            /\ (/\ call[c].total_chars >= 50
                /\ call[c].total_chars < 200
                /\ settings.openai_api_key # "") =>
                  /\ call[c].exec = 1
                  /\ "low_volume" \in call[c].out
                  /\ (call[c].pc = "done" /\ call[c].spawn = "started") =>
                        (call[c].ret = RetBool(TRUE) <=> call[c].proc.returncode = 0)

\* r is s without its leading and trailing whitespace
IsTrimOf(r, s) ==
    \E i \in 1..Len(s), j \in 1..Len(s) :
        /\ r = SubSeq(s, i, j)
        /\ ~IsSpace(s[i])
        /\ ~IsSpace(s[j])
        /\ \A k \in 1..Len(s) : (k < i \/ k > j) => IsSpace(s[k])

\* C7: a finished query has returned a string or None and raised nothing:
\* None when the binary is missing, when an exception was caught, when the
\* process exited non-zero or when its stdout is blank; otherwise stdout
\* without its surrounding whitespace, which is not the empty string.
C7_QueryResult ==
    \A c \in QueryCalls :
        call[c].pc = "done" =>
            /\ ~call[c].raised
            /\ call[c].ret.kind \in {"none", "str"}
            /\ call[c].ret.kind = "str" => call[c].ret.s # <<>>
            /\ call[c].spawn \in {"not_found", "os_error"} => call[c].ret = RetNone
            /\ call[c].spawn = "started" =>
                  LET p == call[c].proc
                  IN  IF p.stdout.kind = "bytes" \/ p.stderr.kind = "bytes"
                           \/ p.returncode # 0
                        THEN call[c].ret = RetNone
                      ELSE IF \A i \in 1..Len(p.stdout.text) : IsSpace(p.stdout.text[i])
                        THEN call[c].ret = RetNone
                      ELSE /\ call[c].ret.kind = "str"
                           /\ IsTrimOf(call[c].ret.s, p.stdout.text)

\* a query returned the answer of the process
C7_Witness ==
    \E c \in QueryCalls :
        /\ call[c].pc = "done"
        /\ call[c].ret.kind = "str"
        /\ call[c].ret.s # call[c].proc.stdout.text

\* C8: the --method argument of every query process is local or global:
\* the caller's value when that is one of the two, local otherwise (with a
\* warning); and a query that ends before create_subprocess_exec was
\* stopped by the index check or the credential check, never by its mode.
C8_MethodCoercion ==
    \A c \in QueryCalls :
        /\ call[c].exec >= 1 =>
              /\ call[c].argv.method \in {"local", "global"}
              /\ call[c].args.method \in {"local", "global"} =>
                    call[c].argv.method = call[c].args.method
              /\ call[c].args.method \notin {"local", "global"} =>
                    (call[c].argv.method = "local" /\ "invalid_method" \in call[c].out)
        /\ call[c].exec = 0 =>
              /\ call[c].pc = "done"
              /\ call[c].out \cap {"no_index", "no_api_key"} # {}

\* a query process was started for a call whose mode is neither local nor
\* global
C8_Witness ==
    \E c \in QueryCalls :
        /\ call[c].args.method = "drift"
        /\ call[c].spawn = "started"
        /\ call[c].argv.method = "local"

(***************************************************************************)
(* The claims on the fallback search, stated on the documents themselves.  *)
(***************************************************************************)
\* the lowercase whitespace-separated words of a text
Words(text) == ToSet(split(lower(text)))

\* the paragraphs of each document of w that decodes, trimmed
ParagraphsOf(w) ==
    [n \in {m \in glob_txt(w) : Readable(w, m)} |->
        LET raw == split_sep(w.files[n].text, ParaBreak)
        IN  [i \in 1..Len(raw) |-> strip(raw[i])]]

\* the places <<file, paragraph number>> of table `paras` whose paragraph
\* has at least `floor` characters and shares a word with the query
Sharing(paras, query_words, floor) ==
    {pl \in UNION {{<<n, i>> : i \in 1..Len(paras[n])} : n \in DOMAIN paras} :
        /\ Len(paras[pl[1]][pl[2]]) >= floor
        /\ Words(paras[pl[1]][pl[2]]) \cap query_words # {}}

Labeled(name, text) == T_From \o name \o <<"]", "\n">> \o text

\* the result of a search, for the paragraphs `found` it has to hold
HitAndMiss(cl, paras, found) ==
    /\ found = {} => cl.ret = RetNone
    /\ found # {} => cl.ret.kind = "str"
    /\ (found # {} /\ Cardinality(found) <= cl.args.max_results) =>
          \A pl \in found :
              contains(cl.ret.s, Labeled(pl[1], prefix(paras[pl[1]][pl[2]], 800)))

\* C9 as claimed: when a paragraph of some document shares a word with the
\* query the search returns a result holding that paragraph, labeled with
\* its file name; when none does it returns None.
C9_SearchHitAndMiss ==
    \A c \in SearchCalls :
        LET paras == ParagraphsOf(fs[call[c].t])
        IN  HitAndMiss(call[c], paras, Sharing(paras, Words(call[c].args.query), 0))

\* C9 as amended: the same of the paragraphs of at least 50 characters.
C9_SearchHitAndMissFrom50 ==
    \A c \in SearchCalls :
        LET paras == ParagraphsOf(fs[call[c].t])
        IN  HitAndMiss(call[c], paras, Sharing(paras, Words(call[c].args.query), 50))

\* a search for "lease term" returned the long paragraph about the lease,
\* labeled, from a document that also holds the short one
C9_Witness ==
    \E c \in SearchCalls, n \in SearchNames :
        /\ call[c].args.query = Q_lease_term
        /\ n \in DOMAIN fs[call[c].t].files
        /\ fs[call[c].t].files[n] = TextFile(DocA)
        /\ call[c].ret.kind = "str"
        /\ contains(call[c].ret.s, Labeled(n, P_lease))

\* the entry the search keeps of the paragraph at place pl
EntryAt(paras, query_words, pl) ==
    [overlap |-> Cardinality(Words(paras[pl[1]][pl[2]]) \cap query_words),
     chunk |-> prefix(paras[pl[1]][pl[2]], 800),
     filename |-> pl[1]]

\* the position of file `name` in the order the files were met
FileOrder(txt_files, name) == CHOOSE i \in 1..Len(txt_files) : txt_files[i] = name

\* place a comes before place b in the result: a higher overlap, or the
\* same overlap and met earlier (file order, then paragraph order)
RanksBefore(paras, query_words, txt_files, a, b) ==
    LET oa == EntryAt(paras, query_words, a).overlap
        ob == EntryAt(paras, query_words, b).overlap
        fa == FileOrder(txt_files, a[1])
        fb == FileOrder(txt_files, b[1])
    IN  \/ oa > ob
        \/ oa = ob /\ fa < fb
        \/ oa = ob /\ fa = fb /\ a[2] < b[2]

\* C10: the chunks of a result are the qualifying paragraphs in descending
\* order of overlap, those of equal overlap in the order they were met
\* (file order, then paragraph order); there are max_results of them, or
\* all of them when fewer qualify; each is cut to 800 characters and
\* follows its file name.
C10_SearchOrdering ==
    \A c \in SearchCalls :
        call[c].ret.kind = "str" =>
            LET paras == ParagraphsOf(fs[call[c].t])
                query_words == Words(call[c].args.query)
                qualifying == Sharing(paras, query_words, 50)
                top == call[c].top
                Before(a, b) == RanksBefore(paras, query_words, call[c].txt_files, a, b)
            IN  /\ Len(top) <= call[c].args.max_results
                /\ Len(top) = IF Cardinality(qualifying) < call[c].args.max_results
                                THEN Cardinality(qualifying)
                              ELSE call[c].args.max_results
                /\ \E pick \in [1..Len(top) -> qualifying] :
                      /\ \A i \in 1..Len(top) : top[i] = EntryAt(paras, query_words, pick[i])
                      /\ \A i, j \in 1..Len(top) : i < j => Before(pick[i], pick[j])
                      /\ \A i \in 1..Len(top) :
                            \A pl \in qualifying \ {pick[k] : k \in 1..Len(top)} :
                                Before(pick[i], pl)
                /\ \A i \in 1..Len(top) : Len(top[i].chunk) <= 800
                /\ call[c].ret.s =
                      join(T_Separator, [i \in 1..Len(top) |-> Labeled(top[i].filename, top[i].chunk)])

\* a search kept two paragraphs of equal overlap, from two files, and left
\* out a third that qualifies
C10_Witness ==
    \E c \in SearchCalls :
        /\ call[c].ret.kind = "str"
        /\ call[c].args.max_results = 2
        /\ Len(call[c].top) = 2
        /\ call[c].top[1].overlap = call[c].top[2].overlap
        /\ call[c].top[1].filename # call[c].top[2].filename
        /\ Cardinality(Sharing(ParagraphsOf(fs[call[c].t]), Words(call[c].args.query), 50)) = 3

(***************************************************************************)
(* The claims on saved documents.                                          *)
(***************************************************************************)
SaveCalls == {c \in Callers : call[c].op = "save"}

EndsInTxt(f) == Len(f) >= 4 /\ SubSeq(f, Len(f) - 3, Len(f)) = DotTxt

\* the part of f after its last "/"
LastPart(f) ==
    LET k == CHOOSE i \in 0..Len(f) :
                 /\ i > 0 => f[i] = "/"
                 /\ \A j \in (i + 1)..Len(f) : f[j] # "/"
    IN  SubSeq(f, k + 1, Len(f))

\* the last part of f without its extension: what follows its last dot,
\* when that dot is neither the first nor the last character
OriginalStem(f) ==
    LET part == LastPart(f)
        cut == {k \in 2..(Len(part) - 1) :
                   part[k] = "." /\ \A j \in (k + 1)..Len(part) : part[j] # "."}
    IN  IF cut = {} THEN part ELSE SubSeq(part, 1, (CHOOSE k \in cut : TRUE) - 1)

\* C11: a save under a name that does not end in .txt writes the file
\* <stem>.txt, the extension replaced, in the input directory of the
\* conversation; a name that ends in .txt is kept as it is.
C11_SavedName ==
    \A c \in SaveCalls :
        LET f == call[c].args.filename
            n == OriginalStem(f) \o DotTxt
        IN  IF EndsInTxt(f)
              THEN call[c].raised \/ call[c].ret = RetStr(f)
            ELSE /\ ~call[c].raised
                 /\ call[c].ret = RetStr(n)
                 /\ n \in DOMAIN fs[call[c].t].files
                 /\ fs[call[c].t].files[n] = TextFile(NormalizedContent[call[c].args.content])

\* notes.docx and dir/notes.pdf were saved as notes.txt, archive.tar.gz as
\* archive.tar.txt
C11_Witness ==
    \E c \in SaveCalls :
        /\ call[c].args.filename = F_archive_tar_gz
        /\ call[c].ret = RetStr(<<"a", "r", "c", "h", "i", "v", "e", ".", "t", "a", "r">> \o DotTxt)
        /\ F_notes_txt \in DOMAIN fs[call[c].t].files

\* what a listing of the input directory w has to hold
Listing(w) == {<<n, Len(w.files[n].text)>> : n \in glob_txt(w)}

\* C12 step by step, from a conversation without documents: a save that
\* returns adds the entry (name, characters stored) of its normalized name
\* in place of any entry of that name; a delete leaves no entry; a listing
\* returns each entry once and changes none.
C12_ListingFollowsSaves ==
    [][\A c \in Callers :
          LET t == last'.t
              cl == call'[c]
          IN  /\ (last'.c = c /\ last'.op = "save" /\ ~cl.raised) =>
                    LET n == LastPart(cl.ret.s)
                        count == Len(NormalizedContent[cl.args.content])
                    IN  Listing(fs'[t]) =
                            {e \in Listing(fs[t]) : e[1] # n} \cup {<<n, count>>}
              /\ (last'.c = c /\ last'.op = "delete") => Listing(fs'[t]) = {}
              /\ (last'.c = c /\ last'.op = "list") =>
                    /\ ~cl.raised
                    /\ cl.ret.kind = "list"
                    /\ {cl.ret.s[i] : i \in 1..Len(cl.ret.s)} = Listing(fs[t])
                    /\ Len(cl.ret.s) = Cardinality(Listing(fs[t]))
                    /\ Listing(fs'[t]) = Listing(fs[t])]_vars

\* s without the whitespace before its first and after its last character
\* that is not whitespace
Trimmed(s) ==
    LET keep == {i \in 1..Len(s) : ~IsSpace(s[i])}
    IN  IF keep = {} THEN <<>>
        ELSE SubSeq(s, CHOOSE i \in keep : \A j \in keep : i <= j,
                       CHOOSE i \in keep : \A j \in keep : i >= j)

\* s with the space of every period-plus-space replaced by two newlines
WithBreaks(s) ==
    LET ends == {i \in 1..(Len(s) - 1) : s[i] = "." /\ s[i + 1] = " "}
        pos(i) == i + Cardinality({j \in ends : j + 1 < i})
    IN  [k \in 1..(Len(s) + Cardinality(ends)) |->
            LET i == CHOOSE i \in 1..Len(s) :
                         pos(i) = k \/ (i - 1 \in ends /\ pos(i) + 1 = k)
            IN  IF i - 1 \in ends THEN "\n" ELSE s[i]]

HasParagraphBreak(s) == \E i \in 1..(Len(s) - 1) : s[i] = "\n" /\ s[i + 1] = "\n"

\* the text the claim has a save of content d store
ExpectedStored ==
    [d \in DocContents |->
        LET t == Trimmed(d)
        IN  (IF Len(t) > 200 /\ ~HasParagraphBreak(t) THEN WithBreaks(t) ELSE t) \o <<"\n">>]

ExpectedWarning == [d \in DocContents |-> Len(Trimmed(d)) < 100]

\* the file at place `at` of the tree
StoredAt(tree, at) ==
    IF at.dir = "input" THEN tree[at.t].files[at.name]
    ELSE tree[at.t].stray[<<at.dir, at.name>>]

\* C13: a save whose directory exists returns, whatever the content (under
\* 100 characters after trimming it warns, and only then), and the text it
\* stores is the content trimmed, with every period-plus-space turned into
\* a period and a paragraph break exactly when the trimmed content is
\* longer than 200 characters and has no paragraph break, and a newline at
\* the end.
C13_StoredText ==
    \A c \in SaveCalls :
        LET d == call[c].args.content
            at == ResolvePath(fs, call[c].t, normalize_filename(call[c].args.filename))
        IN  at.dir # "missing" =>
                /\ ~call[c].raised
                /\ call[c].ret.kind = "str"
                /\ StoredAt(fs, at) = TextFile(ExpectedStored[d])
                /\ ("short_document" \in call[c].out) <=> ExpectedWarning[d]

\* a text of 200 characters with sentences was stored as it is, after one
\* of 201 characters was stored with paragraph breaks
C13_Witness ==
    \E c \in SaveCalls :
        /\ call[c].args.content = D_200
        /\ call[c].args.filename = F_a_txt
        /\ fs[call[c].t].files[F_a_txt].text = D_200 \o <<"\n">>
        /\ F_notes_txt \in DOMAIN fs[call[c].t].files
        /\ Len(fs[call[c].t].files[F_notes_txt].text) = Len(D_201) + 1 + 4

(***************************************************************************)
(* The claims on conversations and callers side by side.                   *)
(***************************************************************************)
\* caller c has no call in flight and a process for conversation b is
\* awaited by another caller
InFlightFor(c, b) ==
    /\ CanCall(c)
    /\ \E o \in Callers \ {c} : call[o].pc = "communicate" /\ call[o].t = b

\* every operation can be started by caller c for conversation a
AllStartable(c, a) ==
    /\ ENABLED save_document(c, a, F_a_txt, Gen(39))
    /\ ENABLED list_documents(c, a)
    /\ ENABLED delete_conversation_data(c, a)
    /\ ENABLED build_index(c, a, FALSE)
    /\ ENABLED query(c, a, Q_term, "local", FALSE)
    /\ ENABLED simple_search(c, a, Q_term, DefaultMaxResults)
    /\ ENABLED get_index_stats(c, a)

\* C14: a step of an operation for one conversation changes nothing of the
\* workspace of another, and an operation for one conversation can start
\* while a process for another is in flight.
C14_TenantIsolation ==
    [][/\ \A b \in Tenants : b # last'.t => fs'[b] = fs[b]
       /\ \A c \in Callers, a \in Tenants, b \in Tenants :
             (a # b /\ InFlightFor(c, b)) => AllStartable(c, a)]_vars

(***************************************************************************)
(* The claims on the calls of the engine.                                  *)
(***************************************************************************)
\* the diagnostics of a failed build or query
Failures ==
    {"no_documents", "read_error", "insufficient_content", "no_api_key", "no_index",
     "cli_not_found", "exception", "indexing_failed", "query_error", "empty_response"}

\* C15: a build or a query calls create_subprocess_exec at most once, and
\* once it has failed (a check, a missing binary, a non-zero exit, an
\* exception) it has ended, with False or None, and awaits no process.
C15_NoRetry ==
    \A c \in BuildCalls \cup QueryCalls :
        /\ call[c].exec <= 1
        /\ call[c].pc = "communicate" => (call[c].exec = 1 /\ call[c].spawn = "started")
        /\ (call[c].out \cap Failures # {} \/ call[c].spawn \in {"not_found", "os_error"}) =>
              /\ call[c].pc = "done"
              /\ call[c].ret \in {RetBool(FALSE), RetNone}

\* a build ended after the binary was not found, having tried once
C15_Witness ==
    \E c \in BuildCalls :
        /\ call[c].spawn = "not_found"
        /\ call[c].exec = 1
        /\ call[c].pc = "done"

\* what a call has come to, its diagnostics left aside
Outcome(cl) ==
    [pc |-> cl.pc, ret |-> cl.ret, exec |-> cl.exec, argv |-> cl.argv,
     spawn |-> cl.spawn, raised |-> cl.raised]

\* the call cl made with the other value of debug
OtherDebug(cl) == [cl EXCEPT !.args.debug = ~@]

\* C16: every step of a build or a query comes to what it would have come
\* to, from the same workspace, settings and process behaviour, with the
\* other value of debug: the same value returned, the same settings.yaml
\* and workspace, the same process.
C16_DebugSameOutcome ==
    [][\A c \in Callers :
          LET t == last'.t
              cl == call'[c]
              d == cl.args.debug
          IN  /\ (last'.c = c /\ last'.op = "build" /\ last'.phase = "call") =>
                    LET pre == BuildPreflight(fs[t], settings, ~d)
                    IN  /\ fs'[t] = pre.w
                        /\ pre.ok <=> cl.exec = 1
                        /\ pre.ok =>
                              Outcome(BuildSpawn(NewCall("build", t, OtherDebug(cl).args),
                                                 cl.spawn)) = Outcome(cl)
                        /\ ~pre.ok => (cl.pc = "done" /\ cl.ret = RetBool(FALSE))
              /\ (last'.c = c /\ last'.op = "build" /\ last'.phase = "return") =>
                    /\ Outcome(BuildResult(OtherDebug(call[c]), cl.proc)) = Outcome(cl)
                    /\ fs'[t].parquet = fs[t].parquet
              /\ (last'.c = c /\ last'.op = "query" /\ last'.phase = "call") =>
                    LET pre == QueryPreflight(fs[t], settings, cl.args.method)
                    IN  /\ fs'[t] = pre.w
                        /\ pre.ok <=> cl.exec = 1
                        /\ pre.ok =>
                              Outcome(QuerySpawn(NewCall("query", t, OtherDebug(cl).args),
                                                 cl.spawn)) = Outcome(cl)
                        /\ ~pre.ok => (cl.pc = "done" /\ cl.ret = RetNone)
              /\ (last'.c = c /\ last'.op = "query" /\ last'.phase = "return") =>
                    /\ Outcome(QueryResult(OtherDebug(call[c]), cl.proc)) = Outcome(cl)
                    /\ fs' = fs]_vars

\* a query with debug set has printed the length of the raw response and
\* returned the answer of the process
C16_Witness ==
    \E c \in Callers :
        /\ call[c].args.debug
        /\ call[c].op = "query"
        /\ call[c].ret.kind = "str"
        /\ "raw_response_length" \in call[c].out

\* C17: a status asked right after a build of the same conversation has
\* returned False reports has_index false, whatever tables the output
\* directory holds.
C17_ArtifactTrust ==
    [][\A c \in Callers :
          (/\ last'.c = c /\ last'.op = "stats"
           /\ last.op = "build" /\ last.t = last'.t
           /\ call[last.c].op = "build"
           /\ call[last.c].pc = "done"
           /\ call[last.c].ret = RetBool(FALSE)) =>
              ~call'[c].ret.d.has_index]_vars

\* settings.yaml as rendered from the settings st
Rendered(st) ==
    [present |-> TRUE, model |-> st.openai_model,
     embedding_model |-> st.openai_embedding_model]

\* C18: when a build call reaches create_subprocess_exec, settings.yaml is
\* the document rendered from the current settings, written by that call;
\* a build call that stops at a pre-flight check leaves settings.yaml as it
\* was.
C18_ConfigBeforeSpawn ==
    [][\A c \in Callers :
          (last'.c = c /\ last'.op = "build" /\ last'.phase = "call") =>
              /\ call'[c].exec >= 1 =>
                    /\ fs'[last'.t].yaml = Rendered(settings)
                    /\ "settings_written" \in call'[c].out
              /\ call'[c].exec = 0 =>
                    /\ fs'[last'.t].yaml = fs[last'.t].yaml
                    /\ call'[c].out \cap
                         {"no_documents", "read_error", "insufficient_content", "no_api_key"} # {}]_vars

\* a build has started the process in a conversation that held the
\* settings.yaml of an earlier run, and the file is now the current one
C18_Witness ==
    \E c \in BuildCalls :
        /\ call[c].spawn = "started"
        /\ call[c].pc = "communicate"
        /\ fs[call[c].t].parquet # {}
        /\ fs[call[c].t].yaml = Rendered(settings)
        /\ fs[call[c].t].yaml # StaleYaml

\* caller o awaits the process of a build of conversation t
BuildInFlight(o, t) ==
    /\ call[o].op = "build"
    /\ call[o].pc = "communicate"
    /\ call[o].t = t

\* conversation t passes the checks of a build: documents, all readable,
\* of 50 characters or more together, and the credential set
Buildable(t) ==
    /\ glob_txt(fs[t]) # {}
    /\ \A n \in glob_txt(fs[t]) : Readable(fs[t], n)
    /\ SumChars(fs[t], glob_txt(fs[t])) >= 50
    /\ settings.openai_api_key # ""

\* C19: while one caller awaits the process of a build of a conversation,
\* another caller's build of the same conversation (when it passes the
\* checks) and another caller's query of it (with the credential set) can
\* start their own process, the first still being awaited: nothing makes
\* the second call wait or fail.
C19_NoMutualExclusion ==
    \A c \in Callers, o \in Callers, t \in Tenants :
        (c # o /\ call[c].pc # "communicate" /\ nops < MaxOps /\ BuildInFlight(o, t)) =>
            /\ Buildable(t) =>
                  ENABLED (/\ build_index(c, t, FALSE)
                           /\ call'[c].pc = "communicate"
                           /\ call'[o].pc = "communicate"
                           /\ fs'[t].yaml = Rendered(settings))
            /\ settings.openai_api_key # "" =>
                  ENABLED (/\ query(c, t, Q_term, "local", FALSE)
                           /\ call'[c].pc = "communicate"
                           /\ call'[o].pc = "communicate")

\* the processes of two builds of one conversation are awaited at once,
\* both calls having written settings.yaml
C19_Witness ==
    \E t \in Tenants :
        /\ BuildInFlight("c1", t)
        /\ BuildInFlight("c2", t)
        /\ "settings_written" \in call["c1"].out
        /\ "settings_written" \in call["c2"].out

====
